---- MODULE Spec2Model ----
(***************************************************************************)
(* Hybrid recommendation engine (recommendation_engine.py):                *)
(* DataProcessor, CollaborativeFilteringModel, ContentBasedModel and       *)
(* HybridRecommendationEngine, modelled as one state machine.              *)
(*                                                                         *)
(* Numbers.  Ratings are small integers.  Every real-valued quantity of    *)
(* the latent factor model (means, biases, scores, similarities) is held   *)
(* as an integer multiple of 1/Scale, where Scale is a common multiple of  *)
(* every possible entry count, so the means of the code are exact.  A      *)
(* hybrid score is held in units of 1/(10*Scale) because the weights are   *)
(* tenths.                                                                 *)
(***************************************************************************)
EXTENDS Integers, Sequences, FiniteSets, TLC

\* ---------------------------------------------------------------- bounds
MaxRows == 4
MaxDPRows == 4
MaxItemRows == 3
MaxTrains == 2
MaxN == 2
MaxMinInteractions == 2
MaxTestRows == 1
MaxCfEntries == 2

\* ------------------------------------------------------- program constants
CfWeightTenths == 7
CbWeightTenths == 3
MaxRating == 5
SeedLimit == 5
SimilarLimit == 20

\* ------------------------------------------------------------ input sets
Users == {"u1", "u2"}
Items == {"i1", "i2", "i3"}
UnknownUser == "u_unknown"

\* rating of a (user, item) pair in the generated interaction tables
RatingOf(u, i) ==
  IF u = "u1" THEN (IF i = "i1" THEN 5 ELSE IF i = "i2" THEN 3 ELSE 1)
              ELSE (IF i = "i1" THEN 4 ELSE IF i = "i2" THEN 0 ELSE 2)

\* content features of a catalogue item in the generated items tables
FeaturesOf(i) == IF i = "i1" THEN {"a"} ELSE IF i = "i2" THEN {"a", "b"} ELSE {"b"}

\* the interaction log train() is given slices of
InteractionLog ==
  <<[user_id |-> "u1", item_id |-> "i1", rating |-> 5],
    [user_id |-> "u1", item_id |-> "i2", rating |-> 3],
    [user_id |-> "u2", item_id |-> "i1", rating |-> 4],
    [user_id |-> "u2", item_id |-> "i3", rating |-> 2]>>

\* the catalogue the items tables are cut from
Catalog == <<"i1", "i2", "i3">>

Max2(a, b) == IF a >= b THEN a ELSE b
Min2(a, b) == IF a <= b THEN a ELSE b

RECURSIVE Gcd(_, _)
Gcd(a, b) == IF b = 0 THEN a ELSE Gcd(b, a % b)

RECURSIVE LcmUpTo(_)
LcmUpTo(n) == IF n <= 1 THEN 1 ELSE LET l == LcmUpTo(n - 1) IN (l * n) \div Gcd(l, n)

\* common denominator of every mean the code can form, kept even
Scale == 2 * LcmUpTo(Max2(MaxRows, MaxCfEntries))

SeqsUpTo(S, n) == UNION {[1..k -> S] : k \in 0..n}

Range(s) == {s[k] : k \in DOMAIN s}

RECURSIVE SumSeq(_)
SumSeq(s) == IF s = <<>> THEN 0 ELSE Head(s) + SumSeq(Tail(s))

\* the rows of s, in order, whose position satisfies Keep
RECURSIVE FilterPos(_, _, _)
FilterPos(s, Keep(_), k) ==
  IF k > Len(s) THEN <<>>
  ELSE (IF Keep(k) THEN <<s[k]>> ELSE <<>>) \o FilterPos(s, Keep, k + 1)

\* ================================================================
\* DataProcessor
\* ================================================================

\* DataFrame.drop_duplicates(['user_id', 'item_id']): the first row of each pair
DropDuplicates(df) ==
  LET first(k) == \A j \in 1..(k - 1) :
                     ~(df[j].user_id = df[k].user_id /\ df[j].item_id = df[k].item_id)
  IN FilterPos(df, first, 1)

\* Series.value_counts(): rows per value of a column
UserCounts(df) ==
  [u \in {df[k].user_id : k \in DOMAIN df} |->
     Cardinality({k \in DOMAIN df : df[k].user_id = u})]
ItemCounts(df) ==
  [i \in {df[k].item_id : k \in DOMAIN df} |->
     Cardinality({k \in DOMAIN df : df[k].item_id = i})]

\* counts[counts >= min_interactions].index
ValidIdsMutant(counts, min) == {x \in DOMAIN counts : counts[x] > min}
ValidIds(counts, min) == {x \in DOMAIN counts : counts[x] >= min}

\* the rows whose user and whose item are both valid (one pass)
FilterValid(df, valid_users, valid_items) ==
  LET keep(k) == df[k].user_id \in valid_users /\ df[k].item_id \in valid_items
  IN FilterPos(df, keep, 1)

\* Series.unique(): the values in order of first appearance
UniqueMutant(s) ==
  LET first(k) == \A j \in 1..(k - 1) : s[j] # s[k]
      u == FilterPos(s, first, 1)
  IN [k \in DOMAIN u |-> u[Len(u) + 1 - k]]
Unique(s) ==
  LET first(k) == \A j \in 1..(k - 1) : s[j] # s[k]
  IN FilterPos(s, first, 1)

\* {value: idx for idx, value in enumerate(unique)}
EncoderOfMutant(unique) ==
  [x \in Range(unique) |-> (CHOOSE k \in DOMAIN unique : unique[k] = x)]
EncoderOf(unique) ==
  [x \in Range(unique) |-> (CHOOSE k \in DOMAIN unique : unique[k] = x) - 1]

\* {idx: value for value, idx in encoder.items()}
DecoderOf(encoder) ==
  [idx \in {encoder[x] : x \in DOMAIN encoder} |->
     CHOOSE x \in DOMAIN encoder : encoder[x] = idx]

\* preprocess_interactions: the four maps and the encoded frame
PreprocessInteractions(df, min) ==
  LET dedup == DropDuplicates(df)
      valid_users == ValidIds(UserCounts(dedup), min)
      valid_items == ValidIds(ItemCounts(dedup), min)
      kept == FilterValid(dedup, valid_users, valid_items)
      uenc == EncoderOf(Unique([k \in DOMAIN kept |-> kept[k].user_id]))
      ienc == EncoderOf(Unique([k \in DOMAIN kept |-> kept[k].item_id]))
  IN [user_encoder |-> uenc,
      item_encoder |-> ienc,
      user_decoder |-> DecoderOf(uenc),
      item_decoder |-> DecoderOf(ienc),
      frame |-> [k \in DOMAIN kept |->
                   [user_id |-> kept[k].user_id, item_id |-> kept[k].item_id,
                    rating |-> kept[k].rating,
                    user_idx |-> uenc[kept[k].user_id],
                    item_idx |-> ienc[kept[k].item_id]]]]

\* create_interaction_matrix: shape from the encoders, one stored entry per row
CreateInteractionMatrix(frame, uenc, ienc) ==
  [n_users |-> Cardinality(DOMAIN uenc),
   n_items |-> Cardinality(DOMAIN ienc),
   data |-> [p \in {<<frame[k].user_idx, frame[k].item_idx>> : k \in DOMAIN frame} |->
               LET k == CHOOSE j \in DOMAIN frame :
                          <<frame[j].user_idx, frame[j].item_idx>> = p
               IN frame[k].rating]]

\* ================================================================
\* Python sequence helpers (0-based indices on 1-based sequences)
\* ================================================================

\* seq[idx] with Python's wrap-around of negative indices
InRange(arr, idx) == idx >= -Len(arr) /\ idx < Len(arr)
At(arr, idx) == IF idx >= 0 THEN arr[idx + 1] ELSE arr[Len(arr) + idx + 1]

\* seq[:n]
Take(s, n) ==
  IF n >= 0 THEN SubSeq(s, 1, Min2(n, Len(s)))
  ELSE SubSeq(s, 1, Max2(0, Len(s) + n))

\* list.sort(key=lambda x: x[1], reverse=True): stable, descending by score
SortByScoreDesc(s) ==
  LET rank(k) == Cardinality({j \in DOMAIN s : s[j].score > s[k].score})
                 + Cardinality({j \in 1..(k - 1) : s[j].score = s[k].score}) + 1
  IN [p \in DOMAIN s |-> s[CHOOSE k \in DOMAIN s : rank(k) = p]]

\* iteration order of a set of small non-negative ints: ascending
RECURSIVE SetToSeq(_)
SetToSeq(S) ==
  IF S = {} THEN <<>>
  ELSE LET m == CHOOSE x \in S : \A y \in S : x <= y
       IN <<m>> \o SetToSeq(S \ {m})

Error(e) == [kind |-> "error", err |-> e]
IsError(r) == r.kind = "error"

\* ================================================================
\* CollaborativeFilteringModel (one latent dimension)
\* ================================================================
NoNumber == [nan |-> TRUE, val |-> 0]
Number(v) == [nan |-> FALSE, val |-> v]

CfUnfitted ==
  [global_mean_set |-> FALSE, biases_set |-> FALSE, factors_set |-> FALSE,
   global_mean |-> NoNumber, user_biases |-> <<>>, item_biases |-> <<>>,
   user_factors |-> <<>>, item_factors |-> <<>>]

RowEntries(m, u) == {p \in DOMAIN m.data : p[1] = u}
ColEntries(m, i) == {p \in DOMAIN m.data : p[2] = i}

RECURSIVE SumData(_, _)
SumData(m, P) ==
  IF P = {} THEN 0
  ELSE LET p == CHOOSE q \in P : TRUE IN m.data[p] + SumData(m, P \ {p})

\* interaction_matrix.data.mean(): over the stored entries, NaN when there are none
GlobalMean(m) ==
  IF DOMAIN m.data = {} THEN NoNumber
  ELSE Number((SumData(m, DOMAIN m.data) * Scale) \div Cardinality(DOMAIN m.data))

\* np.divide(sums, counts, out=zeros, where=counts != 0) - global_mean,
\* counts being the entries > 0 of the row or column
BiasOf(m, P, gm) ==
  LET cnt == Cardinality({p \in P : m.data[p] > 0})
      mean == IF cnt # 0 THEN (SumData(m, P) * Scale) \div cnt ELSE 0
  IN mean - gm.val

UserBiases(m, gm) == [u \in 1..m.n_users |-> BiasOf(m, RowEntries(m, u - 1), gm)]
ItemBiases(m, gm) == [i \in 1..m.n_items |-> BiasOf(m, ColEntries(m, i - 1), gm)]

\* fit up to the bias vectors (lines 99-110)
CfFitBiases(cf, m) ==
  LET gm == GlobalMean(m)
  IN [cf EXCEPT !.global_mean_set = TRUE, !.biases_set = TRUE,
                !.global_mean = gm,
                !.user_biases = UserBiases(m, gm),
                !.item_biases = ItemBiases(m, gm)]

\* fit stopped inside the first np.divide (line 104): only global_mean is new
CfFitMeanOnly(cf, m) ==
  [cf EXCEPT !.global_mean_set = TRUE, !.global_mean = GlobalMean(m)]

\* the whole fit; uf and itf are the factors the decomposition returns
CfFit(cf, m, uf, itf) ==
  [CfFitBiases(cf, m) EXCEPT !.factors_set = TRUE,
                             !.user_factors = uf, !.item_factors = itf]

\* np.dot of two one-dimensional factor rows, in units of 1/Scale
Dot(a, b) == a * b * Scale

\* max(0, min(5, prediction))
ClampMutant(x) == Max2(0, x)
Clamp(x) == Max2(0, Min2(MaxRating * Scale, x))

\* the same with prediction = NaN: min(5, nan) is 5, every comparison with NaN being false
NanClamp == MaxRating * Scale

\* predict(user_idx, item_idx)
CfPredict(cf, user_idx, item_idx) ==
  IF ~cf.factors_set THEN Error("TypeError")
  ELSE IF user_idx >= Len(cf.user_factors) \/ item_idx >= Len(cf.item_factors)
  THEN [kind |-> "value", nan |-> cf.global_mean.nan, val |-> cf.global_mean.val,
        clamped |-> FALSE]
  ELSE IF ~InRange(cf.user_biases, user_idx) \/ ~InRange(cf.item_biases, item_idx)
          \/ ~InRange(cf.user_factors, user_idx) \/ ~InRange(cf.item_factors, item_idx)
  THEN Error("IndexError")
  ELSE IF cf.global_mean.nan
  THEN [kind |-> "value", nan |-> FALSE, val |-> NanClamp, clamped |-> TRUE]
  ELSE [kind |-> "value", nan |-> FALSE,
        val |-> Clamp(cf.global_mean.val + At(cf.user_biases, user_idx)
                      + At(cf.item_biases, item_idx)
                      + Dot(At(cf.user_factors, user_idx), At(cf.item_factors, item_idx))),
        clamped |-> TRUE]

\* get_user_recommendations(user_idx, n_recommendations, exclude_seen); scores that
\* are NaN (a NaN global_mean) compare false both ways, so the sort leaves them in place
CfRecommend(cf, user_idx, n, exclude) ==
  IF ~cf.factors_set THEN Error("TypeError")
  ELSE IF user_idx >= Len(cf.user_factors) THEN [kind |-> "ok", recs |-> <<>>]
  ELSE IF ~InRange(cf.user_factors, user_idx) THEN Error("IndexError")
  ELSE IF Len(cf.item_biases) # Len(cf.item_factors) /\ Len(cf.item_biases) # 1
  THEN Error("ValueError")
  ELSE IF ~InRange(cf.user_biases, user_idx) THEN Error("IndexError")
  ELSE
    LET uv == At(cf.user_factors, user_idx)
        ib(k) == IF Len(cf.item_biases) = 1 THEN cf.item_biases[1] ELSE cf.item_biases[k]
        scores == [k \in 1..Len(cf.item_factors) |->
                     Dot(cf.item_factors[k], uv) + ib(k)
                     + At(cf.user_biases, user_idx) + cf.global_mean.val]
        all == [k \in 1..Len(scores) |->
                  [idx |-> k - 1, score |-> IF cf.global_mean.nan THEN 0 ELSE scores[k],
                   nan |-> cf.global_mean.nan]]
        keep(k) == (k - 1) \notin exclude
    IN [kind |-> "ok", recs |-> Take(SortByScoreDesc(FilterPos(all, keep, 1)), n)]

\* ================================================================
\* ContentBasedModel
\* ================================================================
\* item_ids is the item each row of the fitted items_df is about, in row order; the
\* code keeps no such list, the rows of the matrix are known by position only
CbUnfitted == [fitted |-> FALSE, item_similarity_matrix |-> <<>>, item_ids |-> <<>>]

\* cosine similarity of two TF-IDF rows, by the overlap of their terms:
\* 0 without a common term, 1 for equal non-empty term sets, between otherwise
Cosine(fa, fb) ==
  IF fa \cap fb = {} THEN 0
  ELSE IF fa = fb THEN Scale
  ELSE Scale \div 2

\* fit(items_df, feature_cols): the full pairwise similarity matrix
CbFit(items_df) ==
  [fitted |-> TRUE,
   item_similarity_matrix |->
     [a \in DOMAIN items_df |->
        [b \in DOMAIN items_df |-> Cosine(items_df[a].features, items_df[b].features)]],
   item_ids |-> [k \in DOMAIN items_df |-> items_df[k].item_id]]

\* get_similar_items(item_idx, n_similar)
CbSimilarItems(cb, item_idx, n) ==
  IF ~cb.fitted THEN Error("AttributeError")
  ELSE IF item_idx >= Len(cb.item_similarity_matrix) THEN [kind |-> "ok", recs |-> <<>>]
  ELSE IF ~InRange(cb.item_similarity_matrix, item_idx) THEN Error("IndexError")
  ELSE
    LET similarities == At(cb.item_similarity_matrix, item_idx)
        all == [k \in 1..Len(similarities) |-> [idx |-> k - 1, score |-> similarities[k]]]
        keep(k) == (k - 1) # item_idx
    IN [kind |-> "ok", recs |-> Take(SortByScoreDesc(FilterPos(all, keep, 1)), n)]

\* ================================================================
\* HybridRecommendationEngine: state
\* ================================================================
VARIABLES
  min_interactions,        \* data_processor.min_interactions
  user_encoder,            \* data_processor.user_encoder : user_id -> index
  item_encoder,            \* data_processor.item_encoder : item_id -> index
  user_decoder,            \* data_processor.user_decoder : index -> user_id
  item_decoder,            \* data_processor.item_decoder : index -> item_id
  interaction_matrix,      \* engine.interaction_matrix
  user_item_interactions,  \* engine.user_item_interactions : user index -> set of item indices
  cf_model,                \* engine.cf_model
  cb_model,                \* engine.cb_model
  is_trained,              \* engine.is_trained
  result,                  \* what the last call returned or raised, with its arguments
  interactions_df,         \* argument of the last preprocess_interactions call
  interactions_clean,      \* frame the last preprocess_interactions call returned
  trains,                  \* number of train() calls so far
  train_failures,          \* number of train() calls so far that raised
  origin                   \* for each part of the state, the train() call that last wrote it

vars == <<min_interactions, user_encoder, item_encoder, user_decoder, item_decoder,
          interaction_matrix, user_item_interactions, cf_model, cb_model, is_trained,
          result, interactions_df, interactions_clean, trains, train_failures, origin>>

dp_vars == <<user_encoder, item_encoder, user_decoder, item_decoder,
             interactions_df, interactions_clean>>
model_vars == <<min_interactions, user_encoder, item_encoder, user_decoder, item_decoder,
                interaction_matrix, user_item_interactions, cf_model, cb_model,
                is_trained>>

EmptyMap == <<>>
NoMatrix == [n_users |-> 0, n_items |-> 0, data |-> EmptyMap]
NoOrigin == [encoders |-> 0, matrix |-> 0, seen |-> 0, mean |-> 0, biases |-> 0,
             factors |-> 0, similarity |-> 0, flag |-> 0]

\* __init__ of the engine and of its three parts
Idle == [op |-> "idle"]

Init ==
  /\ min_interactions \in 1..MaxMinInteractions
  /\ user_encoder = EmptyMap
  /\ item_encoder = EmptyMap
  /\ user_decoder = EmptyMap
  /\ item_decoder = EmptyMap
  /\ interaction_matrix = NoMatrix
  /\ user_item_interactions = EmptyMap
  /\ cf_model = CfUnfitted
  /\ cb_model = CbUnfitted
  /\ is_trained = FALSE
  /\ result = Idle
  /\ interactions_df = <<>>
  /\ interactions_clean = <<>>
  /\ trains = 0
  /\ train_failures = 0
  /\ origin = NoOrigin

\* ---------------------------------------------------------------- inputs
InteractionRows ==
  {[user_id |-> u, item_id |-> i, rating |-> RatingOf(u, i)] : u \in Users, i \in Items}
\* tables handed to preprocess_interactions on its own: every sequence of rows
PreprocessTables == SeqsUpTo(InteractionRows, MaxDPRows)

\* tables handed to train(): the slices of the log of at most MaxRows rows
Slices(log, n) ==
  {SubSeq(log, a, b) : a \in 1..(Len(log) + 1), b \in 0..Len(log)} \cap SeqsUpTo(Range(log), n)
\* and the table of its first and last row: two users without a common item
InteractionTables ==
  Slices(InteractionLog, MaxRows) \cup {<<InteractionLog[1], InteractionLog[Len(InteractionLog)]>>}

\* items tables: the first rows of the catalogue, in its order or reversed
Reverse(s) == [k \in DOMAIN s |-> s[Len(s) + 1 - k]]
ItemTable(ids) == [k \in DOMAIN ids |-> [item_id |-> ids[k], features |-> FeaturesOf(ids[k])]]
ItemTables ==
  {ItemTable(SubSeq(c, 1, k)) : c \in {Catalog, Reverse(Catalog)},
                                k \in 1..Min2(MaxItemRows, Len(Catalog))}

\* factor rows the decomposition may return
FactorVals == {-2, 2}
FactorVectors(n) == [1..n -> FactorVals]

UserIds == Users \cup {UnknownUser}

\* ================================================================
\* HybridRecommendationEngine: operations
\* ================================================================

\* the loop of train() over the encoded rows (lines 222-227): entries are added
\* to the sets the engine already holds
StoreInteractions(uii, frame) ==
  LET touched == {frame[k].user_idx : k \in DOMAIN frame}
      old(u) == IF u \in DOMAIN uii THEN uii[u] ELSE {}
  IN [u \in (DOMAIN uii) \cup touched |->
        old(u) \cup {frame[k].item_idx : k \in {j \in DOMAIN frame : frame[j].user_idx = u}}]

\* dict.get(key, default)
Get(d, key, default) == IF key \in DOMAIN d THEN d[key] ELSE default

\* hybrid_score = cf_weight * cf_score + cb_weight * cb_score, in units of 1/(10*Scale)
HybridScoreMutant(cf_score, cb_score) == CfWeightTenths * cf_score + CfWeightTenths * cb_score
HybridScore(cf_score, cb_score) == CfWeightTenths * cf_score + CbWeightTenths * cb_score

\* items the CB loop skips (line 268)
CbExcluded(seen_items) == seen_items

\* the known-user branch of get_recommendations (lines 251-293)
KnownUserRecommendations(user_id, n) ==
  LET user_idx == user_encoder[user_id]
      seen_items == Get(user_item_interactions, user_idx, {})
      cf_recs == CfRecommend(cf_model, user_idx, n * 2, seen_items)
      seeds == Take(SetToSeq(seen_items), SeedLimit)
      similar(s) == CbSimilarItems(cb_model, s, SimilarLimit)
  IN IF IsError(cf_recs) THEN cf_recs
     ELSE IF \E k \in DOMAIN seeds : IsError(similar(seeds[k]))
     THEN similar(seeds[CHOOSE k \in DOMAIN seeds : IsError(similar(seeds[k]))])
     ELSE
       LET cf_scores == [c \in {cf_recs.recs[k].idx : k \in DOMAIN cf_recs.recs} |->
                           (cf_recs.recs[CHOOSE k \in DOMAIN cf_recs.recs :
                                           cf_recs.recs[k].idx = c]).score]
           hits(c) == [k \in DOMAIN seeds |->
                         LET l == similar(seeds[k]).recs
                         IN SumSeq([j \in DOMAIN l |->
                                      IF l[j].idx = c THEN l[j].score ELSE 0])]
           surfaced == UNION {{similar(seeds[k]).recs[j].idx :
                                 j \in DOMAIN similar(seeds[k]).recs} : k \in DOMAIN seeds}
           cb_scores == [c \in surfaced \ CbExcluded(seen_items) |-> SumSeq(hits(c))]
           all_items == SetToSeq((DOMAIN cf_scores) \cup (DOMAIN cb_scores))
           hybrid_scores ==
             [k \in DOMAIN all_items |->
                LET cf_score == Get(cf_scores, all_items[k], 0)
                    cb_score == Get(cb_scores, all_items[k], 0)
                IN [idx |-> all_items[k], score |-> HybridScore(cf_score, cb_score),
                    cf_score |-> cf_score, cb_score |-> cb_score]]
           top == Take(SortByScoreDesc(hybrid_scores), n)
       IN IF \E k \in DOMAIN top : top[k].idx \notin DOMAIN item_decoder
          THEN Error("KeyError")
          ELSE [kind |-> "ok",
                recs |-> [k \in DOMAIN top |->
                            [item_id |-> item_decoder[top[k].idx],
                             score |-> top[k].score,
                             cf_score |-> top[k].cf_score,
                             cb_score |-> top[k].cb_score,
                             method |-> "hybrid"]]]

\* np.argsort(item_popularity)[::-1]: ascending and stable, then reversed
ArgsortReversed(pop) ==
  LET rank(k) == Cardinality({j \in DOMAIN pop : pop[j] > pop[k]})
                 + Cardinality({j \in DOMAIN pop : j > k /\ pop[j] = pop[k]}) + 1
  IN [p \in DOMAIN pop |-> (CHOOSE k \in DOMAIN pop : rank(k) = p) - 1]

\* _get_popular_items(n_items)
PopularItems(n) ==
  LET item_popularity == [i \in 1..interaction_matrix.n_items |->
                            SumData(interaction_matrix, ColEntries(interaction_matrix, i - 1))]
      popular_items == Take(ArgsortReversed(item_popularity), n)
  IN IF \E k \in DOMAIN popular_items : popular_items[k] \notin DOMAIN item_decoder
     THEN Error("KeyError")
     ELSE [kind |-> "ok",
           recs |-> [k \in DOMAIN popular_items |->
                       [item_id |-> item_decoder[popular_items[k]],
                        score |-> item_popularity[popular_items[k] + 1] * 10 * Scale,
                        cf_score |-> 0, cb_score |-> 0, method |-> "popular"]]]

\* the check of lines 244-245 and 322-323: ValueError("Model must be trained ...")
RequireTrainedMutant(trained, outcome) == outcome
RequireTrained(trained, outcome) == IF ~trained THEN Error("UntrainedModel") ELSE outcome

\* get_recommendations(user_id, n_recommendations)
Recommendations(user_id, n) ==
  RequireTrained(is_trained,
                 IF user_id \in DOMAIN user_encoder
                 THEN KnownUserRecommendations(user_id, n)
                 ELSE PopularItems(n))

GetRecommendationsMutant(user_id, n) ==
  /\ result = Idle
  /\ result' = [op |-> "get_recommendations", user_id |-> user_id, n |-> n]
                 @@ Recommendations(user_id, n)
  /\ user_item_interactions' =
       IF is_trained /\ user_id \in DOMAIN user_encoder
       THEN [u \in DOMAIN user_item_interactions \cup {user_encoder[user_id]} |-> {}]
       ELSE user_item_interactions
  /\ UNCHANGED <<min_interactions, dp_vars, interaction_matrix, cf_model, cb_model,
                 is_trained, trains, train_failures, origin>>
GetRecommendations(user_id, n) ==
  /\ result = Idle
  /\ result' = [op |-> "get_recommendations", user_id |-> user_id, n |-> n]
                 @@ Recommendations(user_id, n)
  /\ UNCHANGED <<model_vars, interactions_df, interactions_clean, trains, train_failures, origin>>

Abs(x) == IF x >= 0 THEN x ELSE -x

\* test_clean.empty (line 332)
NoRowsRemainMutant(test_clean) == FALSE
NoRowsRemain(test_clean) == test_clean = <<>>

\* evaluate(test_interactions): the sentinel, or the error sums of the predictions
Evaluation(test) ==
  LET keep(k) == test[k].user_id \in DOMAIN user_encoder
                 /\ test[k].item_id \in DOMAIN item_encoder
      test_clean == FilterPos(test, keep, 1)
      pred(k) == CfPredict(cf_model, user_encoder[test_clean[k].user_id],
                           item_encoder[test_clean[k].item_id])
      err(k) == pred(k).val - test_clean[k].rating * Scale
  IN RequireTrained(is_trained,
       IF NoRowsRemain(test_clean) THEN [kind |-> "ok", sentinel |-> TRUE, rows |-> 0]
       ELSE IF \E k \in DOMAIN test_clean : IsError(pred(k))
       THEN pred(CHOOSE k \in DOMAIN test_clean : IsError(pred(k)))
       ELSE [kind |-> "ok", sentinel |-> FALSE, rows |-> Len(test_clean),
             abs_err |-> SumSeq([k \in DOMAIN test_clean |-> Abs(err(k))]),
             sq_err |-> SumSeq([k \in DOMAIN test_clean |-> err(k) * err(k)])])

Evaluate(test) ==
  /\ result = Idle
  /\ result' = [op |-> "evaluate", test |-> test] @@ Evaluation(test)
  /\ UNCHANGED <<model_vars, interactions_df, interactions_clean, trains, train_failures, origin>>

\* ---------------------------------------------------------------- train()
TrainRaised(stage, e) == [op |-> "train", kind |-> "error", stage |-> stage, err |-> e]

\* TfidfVectorizer.fit_transform raises on an empty vocabulary
EmptyVocabulary(items_df) == \A k \in DOMAIN items_df : items_df[k].features = {}

\* the value train() leaves in is_trained once both fits are done (line 235)
TrainedFlagAfterFitMutant(stage) == TRUE
TrainedFlagAfterFit(stage) == IF stage = "done" THEN TRUE ELSE is_trained

\* preprocess_interactions raises before it writes anything (a missing column)
TrainFailPreprocess ==
  /\ result = Idle
  /\ trains < MaxTrains
  /\ trains' = trains + 1
  /\ train_failures' = train_failures + 1
  /\ result' = TrainRaised("preprocess", "KeyError")
  /\ is_trained' = TrainedFlagAfterFit("preprocess")
  /\ UNCHANGED <<min_interactions, dp_vars, interaction_matrix, user_item_interactions,
                 cf_model, cb_model, origin>>

\* lines 54-57 of preprocess_interactions, as train() runs them
WriteEncoders(df) ==
  LET pre == PreprocessInteractions(df, min_interactions)
  IN /\ user_encoder' = pre.user_encoder
     /\ item_encoder' = pre.item_encoder
     /\ user_decoder' = pre.user_decoder
     /\ item_decoder' = pre.item_decoder
     /\ interactions_df' = df
     /\ interactions_clean' = pre.frame

NewFrame(df) == PreprocessInteractions(df, min_interactions).frame
NewMatrix(df) ==
  LET pre == PreprocessInteractions(df, min_interactions)
  IN CreateInteractionMatrix(pre.frame, pre.user_encoder, pre.item_encoder)

\* create_interaction_matrix raises (ratings that are no numbers)
TrainFailMatrix(df) ==
  /\ result = Idle
  /\ trains < MaxTrains
  /\ trains' = trains + 1
  /\ WriteEncoders(df)
  /\ origin' = [origin EXCEPT !.encoders = trains + 1]
  /\ train_failures' = train_failures + 1
  /\ result' = TrainRaised("matrix", "TypeError")
  /\ is_trained' = TrainedFlagAfterFit("matrix")
  /\ UNCHANGED <<min_interactions, interaction_matrix, user_item_interactions,
                 cf_model, cb_model>>

\* cf_model.fit raises: inside np.divide (integer ratings) with only global_mean
\* written, or inside the decomposition with the bias vectors written too.  The
\* decomposition rejects a matrix without rows or columns.
TrainFailCf(df, point) ==
  /\ result = Idle
  /\ trains < MaxTrains
  /\ trains' = trains + 1
  /\ WriteEncoders(df)
  /\ interaction_matrix' = NewMatrix(df)
  /\ user_item_interactions' = StoreInteractions(user_item_interactions, NewFrame(df))
  /\ \/ /\ point = "divide"
        /\ cf_model' = CfFitMeanOnly(cf_model, NewMatrix(df))
        /\ origin' = [origin EXCEPT !.encoders = trains + 1, !.matrix = trains + 1,
                                    !.seen = trains + 1, !.mean = trains + 1]
     \/ /\ point = "svd"
        /\ cf_model' = CfFitBiases(cf_model, NewMatrix(df))
        /\ origin' = [origin EXCEPT !.encoders = trains + 1, !.matrix = trains + 1,
                                    !.seen = trains + 1, !.mean = trains + 1,
                                    !.biases = trains + 1]
  /\ train_failures' = train_failures + 1
  /\ result' = TrainRaised("cf_fit", IF point = "divide" THEN "TypeError" ELSE "ValueError")
  /\ is_trained' = TrainedFlagAfterFit("cf_fit")
  /\ UNCHANGED <<min_interactions, cb_model>>

\* cb_model.fit raises (a missing feature column, an empty vocabulary)
TrainFailCb(df, uf, itf) ==
  /\ result = Idle
  /\ trains < MaxTrains
  /\ NewFrame(df) # <<>>
  /\ trains' = trains + 1
  /\ WriteEncoders(df)
  /\ interaction_matrix' = NewMatrix(df)
  /\ user_item_interactions' = StoreInteractions(user_item_interactions, NewFrame(df))
  /\ cf_model' = CfFit(cf_model, NewMatrix(df), uf, itf)
  /\ origin' = [origin EXCEPT !.encoders = trains + 1, !.matrix = trains + 1,
                              !.seen = trains + 1, !.mean = trains + 1,
                              !.biases = trains + 1, !.factors = trains + 1]
  /\ train_failures' = train_failures + 1
  /\ result' = TrainRaised("cb_fit", "KeyError")
  /\ is_trained' = TrainedFlagAfterFit("cb_fit")
  /\ UNCHANGED <<min_interactions, cb_model>>

\* train() runs to its end
TrainOk(df, uf, itf, items_df) ==
  /\ result = Idle
  /\ trains < MaxTrains
  /\ NewFrame(df) # <<>>
  /\ ~EmptyVocabulary(items_df)
  /\ trains' = trains + 1
  /\ WriteEncoders(df)
  /\ interaction_matrix' = NewMatrix(df)
  /\ user_item_interactions' = StoreInteractions(user_item_interactions, NewFrame(df))
  /\ cf_model' = CfFit(cf_model, NewMatrix(df), uf, itf)
  /\ cb_model' = CbFit(items_df)
  /\ origin' = [encoders |-> trains + 1, matrix |-> trains + 1, seen |-> trains + 1,
                mean |-> trains + 1, biases |-> trains + 1, factors |-> trains + 1,
                similarity |-> trains + 1, flag |-> trains + 1]
  /\ result' = [op |-> "train", kind |-> "ok"]
  /\ is_trained' = TrainedFlagAfterFit("done")
  /\ UNCHANGED <<min_interactions, train_failures>>

\* the caller takes what the call returned or raised and goes on
Return ==
  /\ result # Idle
  /\ result' = Idle
  /\ UNCHANGED <<model_vars, interactions_df, interactions_clean, trains, train_failures, origin>>

TestRows ==
  {[user_id |-> u, item_id |-> "i1", rating |-> IF u \in Users THEN RatingOf(u, "i1") ELSE 3] :
     u \in UserIds}
TestTables == SeqsUpTo(TestRows, MaxTestRows)

UserFactors(df, a) == [k \in 1..NewMatrix(df).n_users |-> a]
ItemFactors(df, b) == [k \in 1..NewMatrix(df).n_items |-> b]

Next ==
  \/ TrainFailPreprocess
  \/ \E df \in InteractionTables : TrainFailMatrix(df)
  \/ \E df \in InteractionTables, point \in {"divide", "svd"} : TrainFailCf(df, point)
  \/ \E df \in InteractionTables, a \in FactorVals, b \in FactorVals :
       TrainFailCb(df, UserFactors(df, a), ItemFactors(df, b))
  \/ \E df \in InteractionTables, a \in FactorVals, b \in FactorVals, items_df \in ItemTables :
       TrainOk(df, UserFactors(df, a), ItemFactors(df, b), items_df)
  \/ \E user_id \in UserIds, n \in 0..MaxN : GetRecommendations(user_id, n)
  \/ \E test \in TestTables : Evaluate(test)
  \/ Return

Spec == Init /\ [][Next]_vars

\* ================================================================
\* DataProcessor on its own
\* ================================================================
\* a fresh DataProcessor and the table it is about to be given
InitDP ==
  /\ min_interactions \in 1..MaxMinInteractions
  /\ user_encoder = EmptyMap
  /\ item_encoder = EmptyMap
  /\ user_decoder = EmptyMap
  /\ item_decoder = EmptyMap
  /\ interaction_matrix = NoMatrix
  /\ user_item_interactions = EmptyMap
  /\ cf_model = CfUnfitted
  /\ cb_model = CbUnfitted
  /\ is_trained = FALSE
  /\ result = Idle
  /\ interactions_df \in PreprocessTables
  /\ interactions_clean = <<>>
  /\ trains = 0
  /\ train_failures = 0
  /\ origin = NoOrigin

Preprocess ==
  /\ result = Idle
  /\ WriteEncoders(interactions_df)
  /\ result' = [op |-> "preprocess_interactions", kind |-> "ok"]
  /\ UNCHANGED <<min_interactions, interaction_matrix, user_item_interactions, cf_model,
                 cb_model, is_trained, trains, train_failures, origin>>

NextDP == Preprocess

SpecDP == InitDP /\ [][NextDP]_vars

\* ================================================================
\* CollaborativeFilteringModel on its own
\* ================================================================
CfShapes == {<<1, 1>>, <<1, 2>>, <<2, 1>>, <<2, 2>>}
CfRatings == {0, 2, 5}
CfCells(shape) == (0..(shape[1] - 1)) \X (0..(shape[2] - 1))
CfMatrices ==
  UNION {{[n_users |-> shape[1], n_items |-> shape[2], data |-> d] :
            d \in UNION {[P -> CfRatings] :
                           P \in {Q \in SUBSET CfCells(shape) : Cardinality(Q) <= MaxCfEntries}}} :
         shape \in CfShapes}
CfIndices == -2..2

\* a model fitted on a matrix, the rest of the engine as constructed
InitCF ==
  /\ min_interactions = 1
  /\ user_encoder = EmptyMap
  /\ item_encoder = EmptyMap
  /\ user_decoder = EmptyMap
  /\ item_decoder = EmptyMap
  /\ \E m \in CfMatrices :
       /\ interaction_matrix = m
       /\ \E uf \in FactorVectors(m.n_users), itf \in FactorVectors(m.n_items) :
            cf_model = CfFit(CfUnfitted, m, uf, itf)
  /\ user_item_interactions = EmptyMap
  /\ cb_model = CbUnfitted
  /\ is_trained = FALSE
  /\ result = Idle
  /\ interactions_df = <<>>
  /\ interactions_clean = <<>>
  /\ trains = 0
  /\ train_failures = 0
  /\ origin = NoOrigin

Predict(user_idx, item_idx) ==
  /\ result = Idle
  /\ result' = [op |-> "predict", user_idx |-> user_idx, item_idx |-> item_idx]
                 @@ CfPredict(cf_model, user_idx, item_idx)
  /\ UNCHANGED <<model_vars, interactions_df, interactions_clean, trains, train_failures, origin>>

\* exclude_seen sets handed to get_user_recommendations
CfExcludes == SUBSET (0..1)

Recommend(user_idx, n, exclude) ==
  /\ result = Idle
  /\ result' = [op |-> "recommend", user_idx |-> user_idx, n |-> n, exclude |-> exclude]
                 @@ CfRecommend(cf_model, user_idx, n, exclude)
  /\ UNCHANGED <<model_vars, interactions_df, interactions_clean, trains, train_failures, origin>>

NextCF ==
  \/ \E user_idx \in CfIndices, item_idx \in CfIndices : Predict(user_idx, item_idx)
  \/ \E user_idx \in CfIndices, n \in 0..MaxN, exclude \in CfExcludes :
       Recommend(user_idx, n, exclude)

SpecCF == InitCF /\ [][NextCF]_vars

\* ================================================================
\* ContentBasedModel on its own
\* ================================================================
CbIndices == -4..3
CbCounts == 0..MaxN

\* items tables handed to fit on its own: the catalogue's items in any order
CbItemTables ==
  {ItemTable(ids) : ids \in {q \in SeqsUpTo(Items, Min2(MaxItemRows, Len(Catalog))) :
                               q # <<>> /\ \A a, b \in DOMAIN q : a # b => q[a] # q[b]}}

\* a model fitted on an items table, the rest of the engine as constructed
InitCB ==
  /\ min_interactions = 1
  /\ user_encoder = EmptyMap
  /\ item_encoder = EmptyMap
  /\ user_decoder = EmptyMap
  /\ item_decoder = EmptyMap
  /\ interaction_matrix = NoMatrix
  /\ user_item_interactions = EmptyMap
  /\ cf_model = CfUnfitted
  /\ \E items_df \in CbItemTables : cb_model = CbFit(items_df)
  /\ is_trained = FALSE
  /\ result = Idle
  /\ interactions_df = <<>>
  /\ interactions_clean = <<>>
  /\ trains = 0
  /\ train_failures = 0
  /\ origin = NoOrigin

SimilarItems(item_idx, n) ==
  /\ result = Idle
  /\ result' = [op |-> "similar_items", item_idx |-> item_idx, n |-> n]
                 @@ CbSimilarItems(cb_model, item_idx, n)
  /\ UNCHANGED <<model_vars, interactions_df, interactions_clean, trains, train_failures, origin>>

NextCB == \E item_idx \in CbIndices, n \in CbCounts : SimilarItems(item_idx, n)

SpecCB == InitCB /\ [][NextCB]_vars

\* ================================================================
\* A retrain taken statement by statement, with get_recommendations calls of
\* another caller between its statements
\* ================================================================
\* the engine after one train() on the whole log and the whole catalogue
InitRetrain ==
  /\ min_interactions \in 1..MaxMinInteractions
  /\ LET pre == PreprocessInteractions(InteractionLog, min_interactions)
         m == CreateInteractionMatrix(pre.frame, pre.user_encoder, pre.item_encoder)
     IN /\ pre.frame # <<>>
        /\ user_encoder = pre.user_encoder
        /\ item_encoder = pre.item_encoder
        /\ user_decoder = pre.user_decoder
        /\ item_decoder = pre.item_decoder
        /\ interactions_df = InteractionLog
        /\ interactions_clean = pre.frame
        /\ interaction_matrix = m
        /\ user_item_interactions = StoreInteractions(EmptyMap, pre.frame)
        /\ \E a \in FactorVals, b \in FactorVals :
             cf_model = CfFit(CfUnfitted, m, [k \in 1..m.n_users |-> a],
                              [k \in 1..m.n_items |-> b])
  /\ cb_model = CbFit(ItemTable(Catalog))
  /\ is_trained = TRUE
  /\ result = Idle
  /\ trains = 1
  /\ train_failures = 0
  /\ origin = [part \in DOMAIN NoOrigin |-> 1]

\* the statement of train() the running call has reached: the parts of the state it
\* has written so far carry its number
RetrainAt(done, next) ==
  /\ result = Idle
  /\ \A part \in done : origin[part] = trains
  /\ origin[next] # trains

\* line 218: preprocess_interactions replaces the four maps
RetrainPreprocess(df) ==
  /\ result = Idle
  /\ trains < MaxTrains
  /\ \A part \in DOMAIN origin : origin[part] = trains
  /\ trains' = trains + 1
  /\ WriteEncoders(df)
  /\ origin' = [origin EXCEPT !.encoders = trains + 1]
  /\ UNCHANGED <<min_interactions, interaction_matrix, user_item_interactions, cf_model,
                 cb_model, is_trained, result, train_failures>>

\* line 219: the matrix of the new frame
RetrainMatrix ==
  /\ RetrainAt({"encoders"}, "matrix")
  /\ interaction_matrix' = CreateInteractionMatrix(interactions_clean, user_encoder, item_encoder)
  /\ origin' = [origin EXCEPT !.matrix = trains]
  /\ UNCHANGED <<min_interactions, dp_vars, user_item_interactions, cf_model, cb_model,
                 is_trained, result, trains, train_failures>>

\* lines 222-227: the loop over the new frame
RetrainSeen ==
  /\ RetrainAt({"matrix"}, "seen")
  /\ user_item_interactions' = StoreInteractions(user_item_interactions, interactions_clean)
  /\ origin' = [origin EXCEPT !.seen = trains]
  /\ UNCHANGED <<min_interactions, dp_vars, interaction_matrix, cf_model, cb_model,
                 is_trained, result, trains, train_failures>>

\* line 99 of fit; on a matrix without rows the fit raises and the call ends here
RetrainMean ==
  /\ RetrainAt({"seen"}, "mean")
  /\ interactions_clean # <<>>
  /\ cf_model' = CfFitMeanOnly(cf_model, interaction_matrix)
  /\ origin' = [origin EXCEPT !.mean = trains]
  /\ UNCHANGED <<min_interactions, dp_vars, interaction_matrix, user_item_interactions,
                 cb_model, is_trained, result, trains, train_failures>>

\* lines 102-110 of fit
RetrainBiases ==
  /\ RetrainAt({"mean"}, "biases")
  /\ cf_model' = CfFitBiases(cf_model, interaction_matrix)
  /\ origin' = [origin EXCEPT !.biases = trains]
  /\ UNCHANGED <<min_interactions, dp_vars, interaction_matrix, user_item_interactions,
                 cb_model, is_trained, result, trains, train_failures>>

\* lines 113-116 of fit
RetrainFactors(a, b) ==
  /\ RetrainAt({"biases"}, "factors")
  /\ cf_model' = CfFit(cf_model, interaction_matrix,
                       [k \in 1..interaction_matrix.n_users |-> a],
                       [k \in 1..interaction_matrix.n_items |-> b])
  /\ origin' = [origin EXCEPT !.factors = trains]
  /\ UNCHANGED <<min_interactions, dp_vars, interaction_matrix, user_item_interactions,
                 cb_model, is_trained, result, trains, train_failures>>

\* line 233: cb_model.fit
RetrainSimilarity(items_df) ==
  /\ RetrainAt({"factors"}, "similarity")
  /\ ~EmptyVocabulary(items_df)
  /\ cb_model' = CbFit(items_df)
  /\ origin' = [origin EXCEPT !.similarity = trains]
  /\ UNCHANGED <<min_interactions, dp_vars, interaction_matrix, user_item_interactions,
                 cf_model, is_trained, result, trains, train_failures>>

\* line 235: is_trained = True
RetrainFlag ==
  /\ RetrainAt({"similarity"}, "flag")
  /\ is_trained' = TrainedFlagAfterFit("done")
  /\ origin' = [origin EXCEPT !.flag = trains]
  /\ UNCHANGED <<min_interactions, dp_vars, interaction_matrix, user_item_interactions,
                 cf_model, cb_model, result, trains, train_failures>>

NextRetrain ==
  \/ \E df \in InteractionTables : RetrainPreprocess(df)
  \/ RetrainMatrix
  \/ RetrainSeen
  \/ RetrainMean
  \/ RetrainBiases
  \/ \E a \in FactorVals, b \in FactorVals : RetrainFactors(a, b)
  \/ \E items_df \in ItemTables : RetrainSimilarity(items_df)
  \/ RetrainFlag
  \/ \E user_id \in UserIds, n \in 0..MaxN : GetRecommendations(user_id, n)
  \/ Return

SpecRetrain == InitRetrain /\ [][NextRetrain]_vars

\* ================================================================
\* Properties
\* ================================================================
Returned(r, op) == r.op = op /\ r.kind = "ok"

\* ---- C1
\* C1: while the engine is untrained, a get_recommendations or evaluate call raises
\* the untrained-model error, returns nothing and changes no part of the engine.
C1_UntrainedCallsRejected ==
  [][(~is_trained /\ result'.op \in {"get_recommendations", "evaluate"})
       => /\ result'.kind = "error"
          /\ result'.err = "UntrainedModel"
          /\ ~is_trained'
          /\ UNCHANGED model_vars]_vars

C1_Witness ==
  /\ ~is_trained
  /\ trains > 0
  /\ result.op = "get_recommendations"
  /\ result.user_id \in DOMAIN user_encoder
  /\ result.kind = "error"

\* ---- C2
\* C2: is_trained turns true only in a train() step that returns normally after
\* writing the encoders, the matrix, the seen sets, both fits; a train() that raises
\* on an untrained engine leaves it untrained; no other step changes the flag.
C2_TrainedOnlyByCompleteTrain ==
  [][/\ (is_trained' # is_trained)
          => /\ is_trained'
             /\ result' = [op |-> "train", kind |-> "ok"]
             /\ trains' = trains + 1
             /\ \A part \in DOMAIN origin : origin'[part] = trains'
     /\ (~is_trained /\ result'.op = "train" /\ result'.kind = "error")
          => ~is_trained'
     /\ (~is_trained /\ trains' = trains + 1 /\ ~is_trained')
          => (result'.op = "train" /\ result'.kind = "error")]_vars

C2_Witness ==
  /\ ~is_trained
  /\ result.op = "train"
  /\ result.kind = "error"
  /\ result.stage = "cb_fit"
  /\ cf_model.factors_set
  /\ origin.factors = trains

\* ---- C3
\* the seen sets the encoded frame alone gives
SeenOf(frame) ==
  [u \in {frame[k].user_idx : k \in DOMAIN frame} |->
     {frame[k].item_idx : k \in {j \in DOMAIN frame : frame[j].user_idx = u}}]

\* C3: after a train() that returned normally, the seen sets are exactly those of
\* that call's encoded interactions: no user key and no item index of an earlier call.
C3_SeenSetReplaced ==
  (result = [op |-> "train", kind |-> "ok"] /\ train_failures = 0)
    => user_item_interactions = SeenOf(interactions_clean)

\* ---- C4
\* C4: a get_recommendations call that returns records for a known user has read
\* encoders, seen sets, latent factor state and similarity matrix that one single
\* train() call wrote.
C4_NoPartialState ==
  (is_trained /\ Returned(result, "get_recommendations")
     /\ result.user_id \in DOMAIN user_encoder /\ result.recs # <<>>)
    => \A part \in {"seen", "mean", "biases", "factors", "similarity"} :
         origin[part] = origin.encoders

\* ---- C5, C6
\* what the input table alone says: its distinct pairs, how many pairs each user and
\* each item has, and the pairs whose user and item both reach the threshold
PairsOf(df) == {<<df[k].user_id, df[k].item_id>> : k \in DOMAIN df}
UserPairCount(df, u) == Cardinality({p \in PairsOf(df) : p[1] = u})
ItemPairCount(df, i) == Cardinality({p \in PairsOf(df) : p[2] = i})
SurvivingPairs(df, min) ==
  {p \in PairsOf(df) : UserPairCount(df, p[1]) >= min /\ ItemPairCount(df, p[2]) >= min}

IsIdentityMap(encoder, decoder, ids) ==
  LET n == Cardinality(ids)
  IN /\ DOMAIN encoder = ids
     /\ {encoder[x] : x \in ids} = 0..(n - 1)
     /\ DOMAIN decoder = 0..(n - 1)
     /\ \A x \in ids : decoder[encoder[x]] = x
     /\ \A idx \in 0..(n - 1) : encoder[decoder[idx]] = idx

\* C5: after preprocess the user map has one entry per distinct user of the filtered,
\* deduplicated interactions, its indices are exactly 0..n-1, encoder and decoder are
\* inverse bijections; the same for items.
C5_IdentityMapsDense ==
  result.op = "preprocess_interactions"
    => LET kept == SurvivingPairs(interactions_df, min_interactions)
       IN /\ IsIdentityMap(user_encoder, user_decoder, {p[1] : p \in kept})
          /\ IsIdentityMap(item_encoder, item_decoder, {p[2] : p \in kept})

C5_Witness ==
  /\ result.op = "preprocess_interactions"
  /\ Cardinality(DOMAIN user_encoder) = 2
  /\ Cardinality(DOMAIN item_encoder) = 2
  /\ Len(interactions_clean) < Len(interactions_df)

\* C6: the retained rows are exactly the deduplicated rows whose user count and item
\* count, both taken once over the deduplicated table, reach min_interactions; so
\* every user and item of the maps has such a count of at least min_interactions.
C6_SinglePassThreshold ==
  result.op = "preprocess_interactions"
    => LET kept == SurvivingPairs(interactions_df, min_interactions)
       IN /\ {<<interactions_clean[k].user_id, interactions_clean[k].item_id>> :
                k \in DOMAIN interactions_clean} = kept
          /\ Len(interactions_clean) = Cardinality(kept)
          /\ \A u \in DOMAIN user_encoder :
               UserPairCount(interactions_df, u) >= min_interactions
          /\ \A i \in DOMAIN item_encoder :
               ItemPairCount(interactions_df, i) >= min_interactions

\* a surviving user left with fewer rows than the threshold: no second pass is made
C6_Witness ==
  /\ result.op = "preprocess_interactions"
  /\ \E u \in DOMAIN user_encoder :
       Cardinality({k \in DOMAIN interactions_clean : interactions_clean[k].user_id = u})
         < min_interactions

\* ---- C7
\* C7: no record returned for a known user names an item that user has a row for in
\* the training table the identity maps were built from.
C7_NoSeenItemReturned ==
  (is_trained /\ Returned(result, "get_recommendations")
     /\ result.user_id \in DOMAIN user_encoder)
    => \A k \in DOMAIN result.recs :
         ~\E j \in DOMAIN interactions_df :
            /\ interactions_df[j].user_id = result.user_id
            /\ interactions_df[j].item_id = result.recs[k].item_id

\* ---- C8
Popularity(item_id) ==
  SumData(interaction_matrix, ColEntries(interaction_matrix, item_encoder[item_id]))

\* C8: for an unknown user the call returns min(n, number of items) records of
\* distinct known items, in non-increasing order of the item's column sum, each with
\* cf_score = 0, cb_score = 0 and method "popular".
C8_ColdStartPopular ==
  (is_trained /\ result.op = "get_recommendations"
     /\ result.user_id \notin DOMAIN user_encoder)
    => /\ result.kind = "ok"
       /\ Len(result.recs) = Min2(result.n, Cardinality(DOMAIN item_encoder))
       /\ \A k \in DOMAIN result.recs :
            /\ result.recs[k].item_id \in DOMAIN item_encoder
            /\ result.recs[k].cf_score = 0
            /\ result.recs[k].cb_score = 0
            /\ result.recs[k].method = "popular"
       /\ \A k, j \in DOMAIN result.recs :
            k < j => /\ result.recs[k].item_id # result.recs[j].item_id
                     /\ Popularity(result.recs[k].item_id)
                          >= Popularity(result.recs[j].item_id)

\* ---- C9
IndexOfItem(item_id) == CHOOSE idx \in DOMAIN item_decoder : item_decoder[idx] = item_id

\* the CF candidates and the CB candidates of a known user, as the two models give them
CfCandidates(user_id, n) ==
  LET user_idx == user_encoder[user_id]
  IN CfRecommend(cf_model, user_idx, n * 2, Get(user_item_interactions, user_idx, {})).recs
CbCandidates(user_id) ==
  LET seen_items == Get(user_item_interactions, user_encoder[user_id], {})
      seeds == Take(SetToSeq(seen_items), SeedLimit)
  IN UNION {{CbSimilarItems(cb_model, seeds[k], SimilarLimit).recs[j].idx :
               j \in DOMAIN CbSimilarItems(cb_model, seeds[k], SimilarLimit).recs} :
            k \in DOMAIN seeds} \ seen_items

\* C9: every record returned for a known user has score = cf_weight * cf_score +
\* cb_weight * cb_score, cf_score being the candidate's CF score or 0 when CF did not
\* propose it, and cb_score 0 when CB did not propose it: a CF-only record scores
\* cf_weight * cf_score, a CB-only record cb_weight * cb_score.
C9_HybridScoreFormula ==
  (is_trained /\ Returned(result, "get_recommendations")
     /\ result.user_id \in DOMAIN user_encoder)
    => \A k \in DOMAIN result.recs :
         LET rec == result.recs[k]
             idx == IndexOfItem(rec.item_id)
             cf == CfCandidates(result.user_id, result.n)
             in_cf == \E j \in DOMAIN cf : cf[j].idx = idx
             in_cb == idx \in CbCandidates(result.user_id)
         IN /\ rec.score = CfWeightTenths * rec.cf_score + CbWeightTenths * rec.cb_score
            /\ in_cf => \E j \in DOMAIN cf : cf[j].idx = idx /\ cf[j].score = rec.cf_score
            /\ ~in_cf => (rec.cf_score = 0 /\ rec.score = CbWeightTenths * rec.cb_score)
            /\ ~in_cb => (rec.cb_score = 0 /\ rec.score = CfWeightTenths * rec.cf_score)

\* a record that only CF proposed beside one that CB scored too
C9_Witness ==
  /\ is_trained
  /\ Returned(result, "get_recommendations")
  /\ result.user_id \in DOMAIN user_encoder
  /\ \A part \in DOMAIN origin : origin[part] = trains
  /\ \E k \in DOMAIN result.recs :
       /\ IndexOfItem(result.recs[k].item_id) \notin CbCandidates(result.user_id)
       /\ result.recs[k].cf_score # 0
  /\ \E k \in DOMAIN result.recs : result.recs[k].cb_score # 0

\* ---- C10
RawPrediction(cf, u, i) ==
  cf.global_mean.val + At(cf.user_biases, u) + At(cf.item_biases, i)
  + Dot(At(cf.user_factors, u), At(cf.item_factors, i))

PredictInRange(r) ==
  /\ r.op = "predict"
  /\ r.user_idx >= 0 /\ r.user_idx < Len(cf_model.user_factors)
  /\ r.item_idx >= 0 /\ r.item_idx < Len(cf_model.item_factors)

\* C10: for a fitted model and an in-range pair, predict returns a number of [0, 5].
C10_PredictWithinScale ==
  PredictInRange(result)
    => /\ result.kind = "value"
       /\ ~result.nan
       /\ result.val >= 0
       /\ result.val <= MaxRating * Scale

\* the sum before clamping lies above 5 and the call returns 5
C10_Witness ==
  /\ PredictInRange(result)
  /\ ~cf_model.global_mean.nan
  /\ RawPrediction(cf_model, result.user_idx, result.item_idx) > MaxRating * Scale
  /\ result.val = MaxRating * Scale

\* ---- C11
OutOfRange(idx, size) == idx < 0 \/ idx >= size

\* C11: an index outside [0, size), negative ones included, raises nothing: predict
\* returns global_mean when either index is out of range, recommend returns the empty
\* list when user_idx is out of range, similar_items returns the empty list when
\* item_idx is out of range.
C11_OutOfRangeHandledLocally ==
  /\ (result.op = "predict"
        /\ (OutOfRange(result.user_idx, Len(cf_model.user_factors))
              \/ OutOfRange(result.item_idx, Len(cf_model.item_factors))))
       => /\ result.kind = "value"
          /\ result.nan = cf_model.global_mean.nan
          /\ result.val = cf_model.global_mean.val
  /\ (result.op = "recommend" /\ OutOfRange(result.user_idx, Len(cf_model.user_factors)))
       => (result.kind = "ok" /\ result.recs = <<>>)
  /\ (result.op = "similar_items"
        /\ OutOfRange(result.item_idx, Len(cb_model.item_similarity_matrix)))
       => (result.kind = "ok" /\ result.recs = <<>>)

\* ---- C12
\* scores of a returned list never rise from one entry to the next (a list of NaN
\* scores has no numeric order to break)
NonIncreasing(recs) ==
  \A k \in 1..(Len(recs) - 1) : recs[k].nan \/ recs[k].score >= recs[k + 1].score

\* C12: for every user index, every n >= 0 and every exclude set, recommend returns
\* at most n pairs with distinct item indices, none in exclude, in non-increasing
\* order of score.
C12_RecommendExcludesAndOrders ==
  result.op = "recommend"
    => /\ result.kind = "ok"
       /\ Len(result.recs) <= result.n
       /\ \A k, j \in DOMAIN result.recs : k # j => result.recs[k].idx # result.recs[j].idx
       /\ \A k \in DOMAIN result.recs : result.recs[k].idx \notin result.exclude
       /\ NonIncreasing(result.recs)

\* the same for the user indices of the fitted range
RecommendContractInRange ==
  (result.op = "recommend" /\ ~OutOfRange(result.user_idx, Len(cf_model.user_factors)))
    => /\ result.kind = "ok"
       /\ Len(result.recs) <= result.n
       /\ \A k, j \in DOMAIN result.recs : k # j => result.recs[k].idx # result.recs[j].idx
       /\ \A k \in DOMAIN result.recs : result.recs[k].idx \notin result.exclude
       /\ NonIncreasing(result.recs)

\* ---- C13
\* the item an index handed to get_similar_items denotes in the similarity matrix
QueryItem(item_idx, size) == IF item_idx >= 0 THEN item_idx ELSE size + item_idx

SimilarItemsContract(r) ==
  /\ r.kind = "ok"
  /\ \A k \in DOMAIN r.recs :
       r.recs[k].idx # QueryItem(r.item_idx, Len(cb_model.item_similarity_matrix))
  /\ Len(r.recs) <= r.n
  /\ \A k, j \in DOMAIN r.recs : k # j => r.recs[k].idx # r.recs[j].idx
  /\ \A k \in 1..(Len(r.recs) - 1) : r.recs[k].score >= r.recs[k + 1].score

\* C13: for every item index get_similar_items accepts (one that passes its range
\* test) and every n >= 0, the returned list does not contain the query item, has at most
\* n entries with distinct item indices, and is in non-increasing order of similarity.
C13_SimilarItemsExcludesQuery ==
  (result.op = "similar_items" /\ result.item_idx < Len(cb_model.item_similarity_matrix))
    => SimilarItemsContract(result)

\* the same for the item indices of the fitted range
SimilarItemsContractInRange ==
  (result.op = "similar_items"
     /\ ~OutOfRange(result.item_idx, Len(cb_model.item_similarity_matrix)))
    => SimilarItemsContract(result)

\* ---- C16
\* C16: for an in-range user, the score recommend pairs with an item equals
\* predict(u, i), the sum clamped to [0, 5].
C16_RecommendAgreesWithPredict ==
  (result.op = "recommend" /\ result.kind = "ok" /\ ~cf_model.global_mean.nan
     /\ ~OutOfRange(result.user_idx, Len(cf_model.user_factors)))
    => \A k \in DOMAIN result.recs :
         LET p == CfPredict(cf_model, result.user_idx, result.recs[k].idx)
         IN /\ p.kind = "value"
            /\ result.recs[k].nan = p.nan
            /\ result.recs[k].score = p.val

\* ---- C20
\* the cells of row u, of column i, that hold a nonzero entry
NonzeroInRow(m, u) == {p \in DOMAIN m.data : p[1] = u /\ m.data[p] # 0}
NonzeroInCol(m, i) == {p \in DOMAIN m.data : p[2] = i /\ m.data[p] # 0}

ExpectedBias(m, P, gm) ==
  IF P = {} THEN 0 ELSE (SumData(m, P) * Scale) \div Cardinality(P) - gm

\* C20: after fit, user_bias[u] is the mean of row u's nonzero entries minus
\* global_mean, and 0 for a row without entries; the same for item_bias by column;
\* the bias vectors are as long as the factor matrices have rows.
C20_BiasDefinition ==
  (cf_model.factors_set /\ ~cf_model.global_mean.nan)
    => LET m == interaction_matrix
           gm == cf_model.global_mean.val
       IN /\ Len(cf_model.user_biases) = m.n_users
          /\ Len(cf_model.item_biases) = m.n_items
          /\ Len(cf_model.user_biases) = Len(cf_model.user_factors)
          /\ Len(cf_model.item_biases) = Len(cf_model.item_factors)
          /\ \A u \in 1..m.n_users :
               cf_model.user_biases[u] = ExpectedBias(m, NonzeroInRow(m, u - 1), gm)
          /\ \A i \in 1..m.n_items :
               cf_model.item_biases[i] = ExpectedBias(m, NonzeroInCol(m, i - 1), gm)

\* ---- C14
\* the rows of a test table whose user and item the identity maps both know
KnownRows(test) ==
  {k \in DOMAIN test : test[k].user_id \in DOMAIN user_encoder
                        /\ test[k].item_id \in DOMAIN item_encoder}

\* C14: on a trained engine evaluate keeps exactly the test rows whose user_id and
\* item_id are both in the identity maps; with no row left it returns the sentinel
\* and raises nothing, with a row left it does not return the sentinel.
C14_EvaluateSentinel ==
  (is_trained /\ result.op = "evaluate")
    => /\ KnownRows(result.test) = {} => (result.kind = "ok" /\ result.sentinel)
       /\ KnownRows(result.test) # {} => ~(result.kind = "ok" /\ result.sentinel)
       /\ result.kind = "ok" => result.rows = Cardinality(KnownRows(result.test))

\* a test row of a known user and an unknown item is dropped and the sentinel returned
C14_Witness ==
  /\ is_trained
  /\ result.op = "evaluate"
  /\ result.test # <<>>
  /\ \E k \in DOMAIN result.test : /\ result.test[k].user_id \in DOMAIN user_encoder
                                     /\ result.test[k].item_id \notin DOMAIN item_encoder
  /\ result.kind = "ok"
  /\ result.sentinel

\* ---- C15
\* C15: on a trained engine a get_recommendations or evaluate step changes no field
\* of the engine (identity maps, matrix, seen sets, both models, the trained flag),
\* and what it returns is determined by those fields and its arguments alone, so the
\* same call made again returns the same result.
C15_InferenceReadOnly ==
  [][(is_trained /\ result'.op \in {"get_recommendations", "evaluate"})
       => /\ UNCHANGED model_vars
          /\ result'.op = "get_recommendations"
               => result' = [op |-> "get_recommendations", user_id |-> result'.user_id,
                             n |-> result'.n]
                              @@ Recommendations(result'.user_id, result'.n)
          /\ result'.op = "evaluate"
               => result' = [op |-> "evaluate", test |-> result'.test]
                              @@ Evaluation(result'.test)]_vars

\* a known user's records returned by a trained engine
C15_Witness ==
  /\ is_trained
  /\ Returned(result, "get_recommendations")
  /\ result.user_id \in DOMAIN user_encoder
  /\ result.recs # <<>>
  /\ user_item_interactions # EmptyMap

\* ---- C19
\* the position in the input table of the first row of a user, of an item, among the
\* rows whose pair survives the filter
FirstUserRow(df, min, u) ==
  CHOOSE k \in DOMAIN df :
    /\ df[k].user_id = u /\ <<u, df[k].item_id>> \in SurvivingPairs(df, min)
    /\ \A j \in 1..(k - 1) :
         ~(df[j].user_id = u /\ <<u, df[j].item_id>> \in SurvivingPairs(df, min))
FirstItemRow(df, min, i) ==
  CHOOSE k \in DOMAIN df :
    /\ df[k].item_id = i /\ <<df[k].user_id, i>> \in SurvivingPairs(df, min)
    /\ \A j \in 1..(k - 1) :
         ~(df[j].item_id = i /\ <<df[j].user_id, i>> \in SurvivingPairs(df, min))

SeenSet(user_id) == Get(user_item_interactions, user_encoder[user_id], {})

\* the sum, over the seen items that have a row in the similarity matrix, of that
\* row's entry for candidate c (every seen item is a seed while there are at most
\* SeedLimit of them, every other item is in a seed's list while there are at most
\* SimilarLimit of them)
SummedSimilarity(user_id, c) ==
  LET sim == cb_model.item_similarity_matrix
      contribution(s) == IF s < Len(sim) /\ c < Len(sim) /\ c # s
                         THEN sim[s + 1][c + 1] ELSE 0
      seen == SetToSeq(SeenSet(user_id))
  IN SumSeq([k \in DOMAIN seen |-> contribution(seen[k])])

\* the item has no content feature in common with any item the user has seen
NoFeatureOverlap(user_id, item_id) ==
  \A s \in SeenSet(user_id) :
    s \in DOMAIN item_decoder => FeaturesOf(item_decoder[s]) \cap FeaturesOf(item_id) = {}

\* C17: the cb_score of a record returned for a known user is the sum of the
\* similarities between the candidate and the seed items (seen items of the user)
\* whose list contains it; it is 0 for a candidate no seed surfaces and for an item
\* without content-feature overlap with any of the user's seen items.
C17_CbScoreIsSum ==
  (is_trained /\ Returned(result, "get_recommendations")
     /\ result.user_id \in DOMAIN user_encoder
     /\ train_failures = 0
     /\ Cardinality(SeenSet(result.user_id)) <= SeedLimit
     /\ Len(cb_model.item_similarity_matrix) <= SimilarLimit)
    => \A k \in DOMAIN result.recs :
         LET rec == result.recs[k]
         IN /\ rec.cb_score = SummedSimilarity(result.user_id, IndexOfItem(rec.item_id))
            /\ IndexOfItem(rec.item_id) \notin CbCandidates(result.user_id)
                 => rec.cb_score = 0
            /\ NoFeatureOverlap(result.user_id, rec.item_id) => rec.cb_score = 0

\* the index-level part alone
CbScoreIsSumOfMatrixEntries ==
  (is_trained /\ Returned(result, "get_recommendations")
     /\ result.user_id \in DOMAIN user_encoder)
    => \A k \in DOMAIN result.recs :
         result.recs[k].cb_score
           = SummedSimilarity(result.user_id, IndexOfItem(result.recs[k].item_id))

\* a candidate that two seeds surface: its cb_score exceeds every single similarity
TwoSeedsAmplify ==
  /\ is_trained
  /\ Returned(result, "get_recommendations")
  /\ result.user_id \in DOMAIN user_encoder
  /\ \E k \in DOMAIN result.recs : result.recs[k].cb_score = Scale

\* ---- C18
\* the candidate union of a known user and the hybrid score of each candidate, from
\* the two models' answers
CandidateUnion(user_id, n) ==
  {CfCandidates(user_id, n)[k].idx : k \in DOMAIN CfCandidates(user_id, n)}
    \cup CbCandidates(user_id)

CandidateScore(user_id, n, c) ==
  LET cf == CfCandidates(user_id, n)
      cf_score == IF \E k \in DOMAIN cf : cf[k].idx = c
                  THEN cf[CHOOSE k \in DOMAIN cf : cf[k].idx = c].score ELSE 0
      cb_score == IF c \in CbCandidates(user_id) THEN SummedSimilarity(user_id, c) ELSE 0
  IN CfWeightTenths * cf_score + CbWeightTenths * cb_score

\* C18: for a known user and n >= 0 the call returns exactly min(n, size of the CF and
\* CB candidate union) records, the CF candidates being the top 2n of recommend; the
\* records name distinct items, are in non-increasing order of hybrid score, carry
\* method "hybrid", and no candidate left out scores strictly higher than a returned one.
C18_TopNOfCandidateUnion ==
  (is_trained /\ result.op = "get_recommendations"
     /\ result.user_id \in DOMAIN user_encoder)
    => /\ result.kind = "ok"
       /\ LET union == CandidateUnion(result.user_id, result.n)
              returned == {IndexOfItem(result.recs[k].item_id) : k \in DOMAIN result.recs}
          IN /\ Len(result.recs) = Min2(result.n, Cardinality(union))
             /\ returned \subseteq union
             /\ Cardinality(returned) = Len(result.recs)
             /\ \A k \in DOMAIN result.recs :
                  /\ result.recs[k].method = "hybrid"
                  /\ result.recs[k].score
                       = CandidateScore(result.user_id, result.n,
                                        IndexOfItem(result.recs[k].item_id))
             /\ \A k \in 1..(Len(result.recs) - 1) :
                  result.recs[k].score >= result.recs[k + 1].score
             /\ \A c \in union \ returned : \A k \in DOMAIN result.recs :
                  CandidateScore(result.user_id, result.n, c) <= result.recs[k].score

\* the same when the call returns
TopNWhenReturned ==
  (is_trained /\ Returned(result, "get_recommendations")
     /\ result.user_id \in DOMAIN user_encoder)
    => LET union == CandidateUnion(result.user_id, result.n)
           returned == {IndexOfItem(result.recs[k].item_id) : k \in DOMAIN result.recs}
       IN /\ Len(result.recs) = Min2(result.n, Cardinality(union))
          /\ returned \subseteq union
          /\ Cardinality(returned) = Len(result.recs)
          /\ \A k \in 1..(Len(result.recs) - 1) :
               result.recs[k].score >= result.recs[k + 1].score
          /\ \A c \in union \ returned : \A k \in DOMAIN result.recs :
               CandidateScore(result.user_id, result.n, c) <= result.recs[k].score

\* ---- C21
\* C21: on an engine trained by one train() call, whatever items table it was given,
\* get_recommendations for a known user does not fail, every index of the CF and CB
\* candidate union is an index of the item identity map, and every seed index handed
\* to the similarity model is, in that model, the row of the item the identity map
\* gives that index.
C21_CandidateIndicesDecode ==
  (is_trained /\ trains = 1 /\ train_failures = 0
     /\ result.op = "get_recommendations" /\ result.user_id \in DOMAIN user_encoder)
    => /\ result.kind = "ok"
       /\ CandidateUnion(result.user_id, result.n) \subseteq DOMAIN item_decoder
       /\ \A s \in SeenSet(result.user_id) :
            /\ s \in DOMAIN item_decoder
            /\ s < Len(cb_model.item_ids)
            /\ cb_model.item_ids[s + 1] = item_decoder[s]

\* the call returns, every candidate decodes, and still a seed index is another
\* item's row in the similarity matrix
SeedDenotesOtherItem ==
  /\ is_trained /\ trains = 1 /\ train_failures = 0
  /\ Returned(result, "get_recommendations")
  /\ result.user_id \in DOMAIN user_encoder
  /\ Len(cb_model.item_ids) = Cardinality(DOMAIN item_decoder)
  /\ \E s \in SeenSet(result.user_id) : cb_model.item_ids[s + 1] # item_decoder[s]

\* ---- C22
\* the running train() call has written a part of the first group and the engine
\* still holds a part of the second group from an earlier call
NewMapsOldModels ==
  /\ \E part \in {"encoders", "matrix", "seen"} : origin[part] = trains
  /\ \E part \in {"mean", "biases", "factors", "similarity"} : origin[part] < trains

\* C22: a get_recommendations call taken between two statements of a retrain, for a
\* user the identity maps know, is either rejected as untrained or reads a consistent
\* snapshot: never identity maps, matrix or seen sets of the new run with latent
\* factor or similarity state of the previous run.
C22_RetrainSnapshot ==
  (result.op = "get_recommendations" /\ result.user_id \in DOMAIN user_encoder
     /\ result.n > 0)
    => \/ (result.kind = "error" /\ result.err = "UntrainedModel")
       \/ ~NewMapsOldModels

====
